---- MODULE Spec2Model ----
(***************************************************************************)
(* A model of the PACE provider dashboard pipeline:                        *)
(*   - enrollment_processing.py : download_and_unzip, clean_and_combine    *)
(*   - process_provider_data.py : the zip-to-county join                   *)
(*   - dashboard.py             : the choropleth and gap-analysis views    *)
(*                                                                         *)
(* Tables (pandas data frames, CSV and XLSX files) are sequences of        *)
(* records.  A cell that pandas may hold as a number or as NaN is a pair   *)
(* <<kind, value>> with kind "num" or "nan"; a raw CSV cell may also be    *)
(* the "." placeholder ("dot"), other text ("text") or empty ("na").       *)
(***************************************************************************)
EXTENDS Integers, Sequences, FiniteSets, TLC

VARIABLES
    \* ---- enrollment aggregator -------------------------------------------
    csv,          \* raw_data/enrollment/<month>/<name>/<name>.csv, per month
    file_list,    \* the month identifiers handed to clean_and_combine
    outputs,      \* the three files under outputs/ written by clean_and_combine
    before_out,   \* outputs as they were when the latest call started
    cc_calls,     \* number of calls of clean_and_combine made so far
    cc_status,    \* "none", "ok" (returned) or "failed" (raised) for the latest call
    \* ---- downloader --------------------------------------------------------
    dl_list,      \* the file_list handed to download_and_unzip
    dl_dir,       \* raw_data/enrollment/<month>/ on disk, per month
    dl_pc,        \* "idle", "running", "returned" or "raised"
    dl_i,         \* position of the loop in dl_list
    dl_runs,      \* number of calls of download_and_unzip started
    dl_start,     \* dl_dir as it was when the current call started
    dl_log,       \* what each iteration of the current call did, in order
    \* ---- provider aggregator -----------------------------------------------
    zip_map_file, \* outputs/ca_zip_county.csv
    prov_file,    \* raw_data/mc_phys_prov.csv
    pp_status,    \* "none" or "done"
    df_ca,        \* target-state provider rows, with the padded zipcode
    df_merged,    \* df_ca left-joined with the crosswalk
    top_counties, \* the counties process_provider_data ranked first
    kpi_file,     \* outputs/kpi_state_benchmarks.csv
    \* ---- dashboard ---------------------------------------------------------
    df,           \* the table load_data returns
    geo_counties, \* county names of the GeoJSON
    prov_df,      \* outputs/provider_data_detailed.csv
    ma_enrl_df,   \* outputs/ma_county_enrollment.csv
    page,         \* the page rendered last
    widgets,      \* the values of the page's controls at that render
    map_data,     \* the table handed to px.choropleth
    gap_df,       \* the table handed to the gap-analysis px.bar
    chart_data,   \* the table handed to the stacked px.bar, with its top counties
    banners,      \* the st.error and st.warning messages of that render
    title,        \* the st.title of that render ("" when none was reached)
    dash_status,  \* "none", "ok" (main returned) or "raised" for that render
    \* ---- enrollment pipeline driver ---------------------------------------
    drv_pc,        \* position of process_all_enrollment_data.py ("idle": not launched)
    os_name,       \* os.name of the interpreter: "nt" or "posix"
    cwd,           \* the current working directory of the process
    folders,       \* the directories that exist
    ep_directory,  \* enrollment_processing.directory
    drv_directory, \* directory of process_all_enrollment_data.py
    made_dir,      \* the directory the driver's os.makedirs ensured
    out_at         \* the directory clean_and_combine's three outputs were written into

agg_vars  == <<csv, file_list, outputs, before_out, cc_calls, cc_status>>
dl_vars   == <<dl_list, dl_dir, dl_pc, dl_i, dl_runs, dl_start, dl_log>>
pp_vars   == <<zip_map_file, prov_file, pp_status, df_ca, df_merged, top_counties, kpi_file>>
dash_vars == <<df, geo_counties, prov_df, ma_enrl_df, page, widgets, map_data, gap_df,
               chart_data, banners, title, dash_status>>
drv_vars  == <<drv_pc, os_name, cwd, folders, ep_directory, drv_directory, made_dir, out_at>>
vars      == <<agg_vars, dl_vars, pp_vars, dash_vars, drv_vars>>

(***************************************************************************)
(* Bounds of the model.                                                    *)
(***************************************************************************)
MaxRows     == 2   \* raw enrollment rows over all monthly files
MaxFileList == 2   \* length of file_list
MaxCalls    == 2   \* calls of clean_and_combine
MaxDlList   == 2   \* length of the file_list of download_and_unzip
MaxDlRuns   == 2   \* calls of download_and_unzip
MaxZipRows  == 2   \* rows of the zip-to-county crosswalk
MaxProvRows == 2   \* rows of the national provider file
MaxEnrlRows == 2   \* rows of the combined enrollment table the dashboard loads
MaxDetRows  == 2   \* rows of the detailed provider table the dashboard loads
MaxMaRows   == 2   \* rows of the county MA enrollment table the dashboard loads

(***************************************************************************)
(* Generic helpers for sequences and pandas cells.                         *)
(***************************************************************************)
Num(n) == <<"num", n>>
NaN    == <<"nan", 0>>
IsNum(c) == c[1] = "num"

Range(s) == {s[i] : i \in 1..Len(s)}

SeqsUpTo(S, n) == UNION {[1..k -> S] : k \in 0..n}

RECURSIVE Filter(_, _)
\* the rows of s, in order, whose index passes keep (a boolean mask)
Filter(s, keep) ==
    IF s = <<>> THEN <<>>
    ELSE LET rest == Filter(Tail(s), [i \in 1..(Len(s) - 1) |-> keep[i + 1]])
         IN  IF keep[1] THEN <<Head(s)>> \o rest ELSE rest

\* Series.sum(): NaN cells are skipped, the sum of nothing is 0
RECURSIVE series_sum(_)
series_sum(cells) ==
    IF cells = <<>> THEN 0
    ELSE (IF IsNum(Head(cells)) THEN Head(cells)[2] ELSE 0) + series_sum(Tail(cells))

LexLess(a, b) ==
    \E i \in 1..Len(a) : a[i] < b[i] /\ \A j \in 1..(i - 1) : a[j] = b[j]

RECURSIVE SortKeys(_)
\* the keys of K in ascending order (groupby sorts its group keys)
SortKeys(K) ==
    IF K = {} THEN <<>>
    ELSE LET m == CHOOSE k \in K : \A j \in K : j = k \/ LexLess(k, j)
         IN  <<m>> \o SortKeys(K \ {m})


\* DataFrame.groupby(keys)[col].sum(): one group per distinct key, in ascending
\* key order; keys[i] is the key of row i and vals[i] its cell
groupby_sum(keys, vals) ==
    LET ks == SortKeys(Range(keys))
    IN  [g \in 1..Len(ks) |->
            [first |-> CHOOSE i \in 1..Len(keys) :
                          /\ keys[i] = ks[g]
                          /\ \A j \in 1..(i - 1) : keys[j] # ks[g],
             sum   |-> series_sum(Filter(vals, [i \in 1..Len(keys) |-> keys[i] = ks[g]]))]]

\* a float quotient n/d (d > 0), or inf or nan, as numpy division yields them
Ratio(n, d) == [kind |-> "num", n |-> n, d |-> d]
np_divide(a, b) ==
    IF b[2] > 0 THEN Ratio(a, b[2])
    ELSE IF b[2] < 0 THEN Ratio(0 - a, 0 - b[2])
    ELSE IF a = 0 THEN [kind |-> "nan", n |-> 0, d |-> 1]
    ELSE [kind |-> "inf", n |-> 0, d |-> 1]
times(q, k) == IF q.kind = "num" THEN Ratio(q.n * k, q.d) ELSE q

\* the missing date
NaT == <<0, 0>>

\* Series.sort_values(ascending=False).head(n) of a table with a numeric
\* column, given as the cells val[i] of its rows: the sets of rows the first n
\* places can hold.  Rows with equal values share the places the sort gives them.
head_desc(val, n) ==
    LET I          == 1..Len(val)
        k          == IF Len(val) < n THEN Len(val) ELSE n
        above(v)   == {i \in I : val[i][2] > v}
        atleast(v) == {i \in I : val[i][2] >= v}
    IN  IF k = 0 THEN {{}}
        ELSE LET cut == CHOOSE v \in {val[i][2] : i \in I} :
                            Cardinality(above(v)) < k /\ Cardinality(atleast(v)) >= k
             IN  {above(cut) \cup T :
                    T \in {S \in SUBSET (atleast(cut) \ above(cut)) :
                              Cardinality(S) = k - Cardinality(above(cut))}}

(***************************************************************************)
(* Enrollment aggregator: enrollment_processing.clean_and_combine          *)
(***************************************************************************)
Months   == {202301, 202302}
states   == {"CA"}
PACE     == "National PACE"

StateRank(s)  == CASE s = "CA" -> 1 [] s = "NV" -> 2
\* the counties of the model, in the order groupby sorts them
Counties ==
    <<"Alameda", "Butte", "Colusa", "Fresno", "Kern", "Marin", "Napa", "Orange",
      "Placer", "Shasta", "Tulare", "Yolo">>
CountyRank(c) == CHOOSE i \in 1..Len(Counties) : Counties[i] = c
PlanRank(p)   == CASE p = "HMO" -> 1 [] p = PACE -> 2

\* the raw ENROLLED cells of a monthly file
RawCells == {Num(1), Num(2), Num(-1), <<"dot", 0>>, <<"text", 0>>, <<"na", 0>>}

RawRow(s, c, p, e) == [STATE |-> s, COUNTY |-> c, PLAN_TYPE |-> p, ENROLLED |-> e]

\* the rows a monthly file is made of: every kind of cell for one PACE county
\* of a configured state, and a count of 1 for another plan type, another
\* county and a state that is not configured
RawRows ==
    {RawRow("CA", "Alameda", PACE, e) : e \in RawCells}
    \cup {RawRow("CA", "Alameda", "HMO", Num(1)), RawRow("CA", "Butte", PACE, Num(1)),
          RawRow("NV", "Alameda", PACE, Num(1))}

year(enrl_file)  == enrl_file \div 100
month(enrl_file) == enrl_file % 100
to_datetime(y, m) == <<y, m>>
DateNum(d) == d[1] * 100 + d[2]

\* Series.replace('.', 0)
replace_dot(cell) == IF cell[1] = "dot" THEN Num(0) ELSE cell
\* pd.to_numeric(..., errors='coerce')
to_numeric(cell) == IF cell[1] = "num" THEN cell ELSE NaN
\* Series.fillna(0), when dropped
fillna_dropped(cell) == cell
\* Series.fillna(0)
fillna0(cell) == IF cell[1] = "nan" THEN Num(0) ELSE cell

\* line 101, cell by cell
coerce_enrolled(cell) == fillna0(to_numeric(replace_dot(cell)))

\* lines 94-101: the frame of one monthly file after cleaning
clean_frame(rows) ==
    [i \in 1..Len(rows) |-> [rows[i] EXCEPT !.ENROLLED = coerce_enrolled(@)]]

\* lines 105 and 117 without the isin(states) mask
in_states_dropped(enrl_df) == enrl_df
\* lines 105 and 117: enrl_df[enrl_df['STATE'].isin(states)]
in_states(enrl_df) == Filter(enrl_df, [i \in 1..Len(enrl_df) |-> enrl_df[i].STATE \in states])

\* lines 105-106
state_ma_df(enrl_df, date) ==
    LET sel == in_states(enrl_df)
        g   == groupby_sum([i \in 1..Len(sel) |-> <<StateRank(sel[i].STATE), CountyRank(sel[i].COUNTY)>>],
                           [i \in 1..Len(sel) |-> sel[i].ENROLLED])
    IN  [k \in 1..Len(g) |->
            [STATE |-> sel[g[k].first].STATE, COUNTY |-> sel[g[k].first].COUNTY,
             ENROLLED |-> Num(g[k].sum), DATE |-> date]]

\* lines 110-112 summing the PACE rows only
nat_df_pace_only(enrl_df, date) ==
    LET pace == Filter(enrl_df, [i \in 1..Len(enrl_df) |-> enrl_df[i].PLAN_TYPE = PACE])
    IN  <<[DATE |-> date,
           NATIONAL_MA_ENROLLED |-> Num(series_sum([i \in 1..Len(pace) |-> pace[i].ENROLLED]))]>>
\* lines 110-112
nat_df(enrl_df, date) ==
    <<[DATE |-> date,
       NATIONAL_MA_ENROLLED |-> Num(series_sum([i \in 1..Len(enrl_df) |-> enrl_df[i].ENROLLED]))]>>

\* lines 117-123
pace_df(enrl_df, date) ==
    LET sel  == in_states(enrl_df)
        pace == Filter(sel, [i \in 1..Len(sel) |-> sel[i].PLAN_TYPE = PACE])
    IN  [i \in 1..Len(pace) |->
            [STATE |-> pace[i].STATE, COUNTY |-> pace[i].COUNTY,
             PLAN_TYPE |-> pace[i].PLAN_TYPE, ENROLLED |-> pace[i].ENROLLED, DATE |-> date]]


\* the frames accumulated by the loop of lines 82-127; the call raises
\* (FileNotFoundError from read_csv) at the first month whose CSV is absent
RECURSIVE loop_frames(_, _, _)
loop_frames(files, disk, acc) ==
    IF files = <<>> THEN acc
    ELSE LET enrl_file == Head(files)
             date      == to_datetime(year(enrl_file), month(enrl_file))
             enrl_df   == clean_frame(disk[enrl_file].rows)
         IN  IF ~disk[enrl_file].exists
             THEN [acc EXCEPT !.raised = TRUE]
             ELSE loop_frames(Tail(files), disk,
                     [raised            |-> FALSE,
                      combined_enrl     |-> acc.combined_enrl \o pace_df(enrl_df, date),
                      combined_total_ma |-> acc.combined_total_ma \o state_ma_df(enrl_df, date),
                      combined_national_ma |-> acc.combined_national_ma \o nat_df(enrl_df, date)])

\* lines 77-79
empty_frames ==
    [raised |-> FALSE, combined_enrl |-> <<>>, combined_total_ma |-> <<>>,
     combined_national_ma |-> <<>>]

\* line 130 without the groupby
dedup_enrl_dropped(combined_enrl) == combined_enrl
\* line 130
dedup_enrl(combined_enrl) ==
    LET g == groupby_sum(
                [i \in 1..Len(combined_enrl) |->
                    <<StateRank(combined_enrl[i].STATE), CountyRank(combined_enrl[i].COUNTY),
                      PlanRank(combined_enrl[i].PLAN_TYPE), DateNum(combined_enrl[i].DATE)>>],
                [i \in 1..Len(combined_enrl) |-> combined_enrl[i].ENROLLED])
    IN  [k \in 1..Len(g) |->
            [STATE |-> combined_enrl[g[k].first].STATE,
             COUNTY |-> combined_enrl[g[k].first].COUNTY,
             PLAN_TYPE |-> combined_enrl[g[k].first].PLAN_TYPE,
             DATE |-> combined_enrl[g[k].first].DATE,
             ENROLLED |-> Num(g[k].sum)]]

\* line 131
dedup_total_ma(combined_total_ma) ==
    LET g == groupby_sum(
                [i \in 1..Len(combined_total_ma) |->
                    <<StateRank(combined_total_ma[i].STATE), CountyRank(combined_total_ma[i].COUNTY),
                      DateNum(combined_total_ma[i].DATE)>>],
                [i \in 1..Len(combined_total_ma) |-> combined_total_ma[i].ENROLLED])
    IN  [k \in 1..Len(g) |->
            [STATE |-> combined_total_ma[g[k].first].STATE,
             COUNTY |-> combined_total_ma[g[k].first].COUNTY,
             DATE |-> combined_total_ma[g[k].first].DATE,
             ENROLLED |-> Num(g[k].sum)]]

\* line 132
dedup_national_ma(combined_national_ma) ==
    LET g == groupby_sum(
                [i \in 1..Len(combined_national_ma) |-> <<DateNum(combined_national_ma[i].DATE)>>],
                [i \in 1..Len(combined_national_ma) |-> combined_national_ma[i].NATIONAL_MA_ENROLLED])
    IN  [k \in 1..Len(g) |->
            [DATE |-> combined_national_ma[g[k].first].DATE,
             NATIONAL_MA_ENROLLED |-> Num(g[k].sum)]]

\* to_excel / to_csv appending to the file left by the previous run
write_appending(old, frame) == [exists |-> TRUE, rows |-> old.rows \o frame]
\* DataFrame.to_excel(path) / to_csv(path): the file is replaced by the frame
to_file(old, frame) == [exists |-> TRUE, rows |-> frame]

NoFile == [exists |-> FALSE, rows |-> <<>>]

\* clean_and_combine writing what it has accumulated even when a month failed
clean_and_combine_writing_early(files, disk, out) ==
    LET acc == loop_frames(files, disk, empty_frames)
    IN  [raised |-> acc.raised \/ files = <<>>,
         out |-> [enrl     |-> to_file(out.enrl, dedup_enrl(acc.combined_enrl)),
                  total_ma |-> to_file(out.total_ma, dedup_total_ma(acc.combined_total_ma)),
                  national |-> to_file(out.national,
                                       dedup_national_ma(acc.combined_national_ma))]]
\* clean_and_combine(file_list, states): the outputs it leaves, and whether it
\* raised.  An empty file_list leaves the column-less pd.DataFrame() of line
\* 77, on which the groupby of line 130 raises KeyError.
clean_and_combine(files, disk, out) ==
    LET acc == loop_frames(files, disk, empty_frames)
    IN  IF acc.raised \/ files = <<>>
        THEN [raised |-> TRUE, out |-> out]
        ELSE [raised |-> FALSE,
              out |-> [enrl     |-> to_file(out.enrl, dedup_enrl(acc.combined_enrl)),
                       total_ma |-> to_file(out.total_ma, dedup_total_ma(acc.combined_total_ma)),
                       national |-> to_file(out.national,
                                            dedup_national_ma(acc.combined_national_ma))]]

AggInit ==
    /\ \E r1 \in SeqsUpTo(RawRows, MaxRows) :
       \E r2 \in SeqsUpTo(RawRows, MaxRows - Len(r1)) :
       \E e1 \in (IF r1 = <<>> THEN BOOLEAN ELSE {TRUE}) :
       \E e2 \in (IF r2 = <<>> THEN BOOLEAN ELSE {TRUE}) :
          csv = (202301 :> [exists |-> e1, rows |-> r1]) @@
                (202302 :> [exists |-> e2, rows |-> r2])
    /\ file_list \in SeqsUpTo(Months, MaxFileList)
    /\ outputs = [enrl |-> NoFile, total_ma |-> NoFile, national |-> NoFile]
    /\ before_out = outputs
    /\ cc_calls = 0
    /\ cc_status = "none"

AggIdle ==
    /\ csv = (202301 :> NoFile) @@ (202302 :> NoFile)
    /\ file_list = <<>>
    /\ outputs = [enrl |-> NoFile, total_ma |-> NoFile, national |-> NoFile]
    /\ before_out = outputs
    /\ cc_calls = 0
    /\ cc_status = "none"

\* process_all_enrollment_data.py line 45: one run of the aggregation step
CleanAndCombine ==
    /\ cc_calls < MaxCalls
    /\ LET r == clean_and_combine(file_list, csv, outputs)
       IN  /\ outputs' = r.out
           /\ cc_status' = IF r.raised THEN "failed" ELSE "ok"
    /\ before_out' = outputs
    /\ cc_calls' = cc_calls + 1
    /\ UNCHANGED <<csv, file_list, dl_vars, pp_vars, dash_vars, drv_vars>>


(***************************************************************************)
(* Downloader: enrollment_processing.download_and_unzip                    *)
(***************************************************************************)
\* the keys of dicts.enrollment_dicts.enrl_file_dict, and an identifier it lacks
KnownFiles == {202301, 202302}
DlFiles    == KnownFiles \cup {209901}

\* what a response body, and so an archive on disk, can be: a ZIP whose members
\* sit at its top level, a ZIP whose members sit in a folder, a ZIP that
\* is_zipfile accepts and extractall rejects, and something that is no ZIP
ZipKinds  == {"zip_flat", "zip_nested", "zip_corrupt"}
BodyKinds == ZipKinds \cup {"not_zip"}
\* requests.get raising, raise_for_status raising, or a body
Responses == {"conn_error", "http_error"} \cup BodyKinds

\* a month's directory: its archive ("none" when absent), whether a regular
\* file other than a .zip sits in it, and whether an extracted folder does
Dir(a, f, d) == [archive |-> a, files |-> f, folder |-> d]

\* the directories a call can find: untouched, downloaded and extracted (flat
\* or nested), and downloaded with the extraction not done (a run interrupted
\* between lines 46 and 64)
StartDirs ==
    {Dir("none", FALSE, FALSE), Dir("zip_flat", TRUE, FALSE),
     Dir("zip_nested", FALSE, TRUE), Dir("zip_flat", FALSE, FALSE)}

LogEntry(f, fetched, wrote, extracted, printed) ==
    [file |-> f, fetched |-> fetched, wrote |-> wrote, extracted |-> extracted,
     printed |-> printed, resp |-> "", had |-> ""]

\* lines 36-47 with the body written whether or not an archive exists
fetch_overwriting(d, resp) ==
    IF resp = "conn_error"
    THEN [raised |-> "An error occurred", fetched |-> TRUE, wrote |-> FALSE, dir |-> d]
    ELSE IF resp = "http_error"
    THEN [raised |-> "HTTP error occurred", fetched |-> TRUE, wrote |-> FALSE, dir |-> d]
    ELSE [raised |-> "", fetched |-> TRUE, wrote |-> TRUE, dir |-> [d EXCEPT !.archive = resp]]
\* lines 36-47: the request is sent first; its body is written only when no
\* archive exists
fetch(d, resp) ==
    IF resp = "conn_error"
    THEN [raised |-> "An error occurred", fetched |-> TRUE, wrote |-> FALSE, dir |-> d]
    ELSE IF resp = "http_error"
    THEN [raised |-> "HTTP error occurred", fetched |-> TRUE, wrote |-> FALSE, dir |-> d]
    ELSE IF d.archive # "none"
    THEN [raised |-> "", fetched |-> TRUE, wrote |-> FALSE, dir |-> d]
    ELSE [raised |-> "", fetched |-> TRUE, wrote |-> TRUE, dir |-> [d EXCEPT !.archive = resp]]

\* lines 50-67: nothing is done when a non-.zip regular file is in the directory
extract(d) ==
    IF d.files
    THEN [extracted |-> FALSE, printed |-> "Files already extracted", dir |-> d]
    ELSE IF d.archive = "zip_flat"
    THEN [extracted |-> TRUE, printed |-> "File successfully unzipped", dir |-> [d EXCEPT !.files = TRUE]]
    ELSE IF d.archive = "zip_nested"
    THEN [extracted |-> TRUE, printed |-> "File successfully unzipped", dir |-> [d EXCEPT !.folder = TRUE]]
    ELSE IF d.archive = "zip_corrupt"
    THEN [extracted |-> FALSE, printed |-> "An error occurred", dir |-> d]
    ELSE [extracted |-> FALSE, printed |-> "is not a zip file", dir |-> d]

\* what the log also keeps of an iteration: the response it got and the
\* archive that was in the directory before it
Seen(entry, d, resp) == [entry EXCEPT !.resp = resp, !.had = d.archive]

\* lines 27-72: the try block of one iteration for a month of the table
iteration(f, d, resp) ==
    LET r == fetch(d, resp)
        x == extract(r.dir)
    IN  IF r.raised # ""
        THEN [dir |-> r.dir,
              log |-> Seen(LogEntry(f, r.fetched, r.wrote, FALSE, r.raised), d, resp)]
        ELSE [dir |-> x.dir,
              log |-> Seen(LogEntry(f, r.fetched, r.wrote, x.extracted, x.printed), d, resp)]

DlInit ==
    /\ dl_list \in SeqsUpTo(DlFiles, MaxDlList)
    /\ \E d1 \in StartDirs, d2 \in StartDirs :
          dl_dir = (202301 :> d1) @@ (202302 :> d2) @@ (209901 :> Dir("none", FALSE, FALSE))
    /\ dl_pc = "idle"
    /\ dl_i = 0
    /\ dl_runs = 0
    /\ dl_start = dl_dir
    /\ dl_log = <<>>

DlIdle ==
    /\ dl_list = <<>>
    /\ dl_dir = [f \in DlFiles |-> Dir("none", FALSE, FALSE)]
    /\ dl_pc = "idle"
    /\ dl_i = 0
    /\ dl_runs = 0
    /\ dl_start = dl_dir
    /\ dl_log = <<>>

\* process_all_enrollment_data.py line 40: download_and_unzip(enrl_files) is called
DlCall ==
    /\ dl_pc \in {"idle", "returned", "raised"}
    /\ dl_runs < MaxDlRuns
    /\ dl_pc' = "running"
    /\ dl_i' = 1
    /\ dl_runs' = dl_runs + 1
    /\ dl_start' = dl_dir
    /\ dl_log' = <<>>
    /\ UNCHANGED <<dl_list, dl_dir, agg_vars, pp_vars, dash_vars, drv_vars>>

\* one iteration of the loop of line 19 whose identifier is in the table
DlIteration ==
    /\ dl_pc = "running"
    /\ dl_i <= Len(dl_list)
    /\ dl_list[dl_i] \in KnownFiles
    /\ \E resp \in Responses :
          LET f == dl_list[dl_i]
              r == iteration(f, dl_dir[f], resp)
          IN  /\ dl_dir' = [dl_dir EXCEPT ![f] = r.dir]
              /\ dl_log' = Append(dl_log, r.log)
    /\ dl_i' = dl_i + 1
    /\ UNCHANGED <<dl_list, dl_pc, dl_runs, dl_start, agg_vars, pp_vars, dash_vars, drv_vars>>

\* line 20 for an identifier the table lacks: KeyError, raised outside the try
DlKeyError ==
    /\ dl_pc = "running"
    /\ dl_i <= Len(dl_list)
    /\ dl_list[dl_i] \notin KnownFiles
    /\ dl_pc' = "raised"
    /\ UNCHANGED <<dl_list, dl_dir, dl_i, dl_runs, dl_start, dl_log, agg_vars, pp_vars, dash_vars, drv_vars>>

\* the loop is exhausted: the function returns
DlReturn ==
    /\ dl_pc = "running"
    /\ dl_i > Len(dl_list)
    /\ dl_pc' = "returned"
    /\ UNCHANGED <<dl_list, dl_dir, dl_i, dl_runs, dl_start, dl_log, agg_vars, pp_vars, dash_vars, drv_vars>>


(***************************************************************************)
(* Provider aggregator: process_provider_data.process_provider_data        *)
(***************************************************************************)
\* A string of decimal digits is the pair <<length, value>>.
RECURSIVE NumDigits(_)
NumDigits(n) == IF n < 10 THEN 1 ELSE 1 + NumDigits(n \div 10)
\* Series.astype(str) on an integer column
astype_str(n) == <<NumDigits(n), n>>
\* Series.str.zfill(width)
zfill(str, width) == <<IF str[1] < width THEN width ELSE str[1], str[2]>>

ZipRow(z, c) == [zipcode |-> z, county |-> c]
ProvRow(npi, z, st, ty, benes, pay) ==
    [Rndrng_NPI |-> npi, Rndrng_Prvdr_Zip5 |-> z, Rndrng_Prvdr_State_Abrvtn |-> st,
     Rndrng_Prvdr_Type |-> ty, Tot_Benes |-> benes, Tot_Mdcr_Pymt_Amt |-> pay]

\* zip codes as read_csv reads them (integers): a five-digit one and one that
\* is written with leading zeros
Zips     == {94501, 501}
ZipRows  == {ZipRow(z, c) : z \in Zips, c \in {"Alameda", "Butte"}}
ProvRows == {ProvRow(1, z, st, ty, 1, 1) :
                z \in Zips, st \in {"CA", "NV"}, ty \in {"Cardiology", "Nursing"}}

\* line 9: the crosswalk with its zipcode as a string
zip_map(rows) == [i \in 1..Len(rows) |-> [rows[i] EXCEPT !.zipcode = astype_str(@)]]

\* lines 71-76: the target-state rows, with the zero-padded zipcode
filter_ca(df_prov) ==
    LET ca == Filter(df_prov, [i \in 1..Len(df_prov) |->
                                  df_prov[i].Rndrng_Prvdr_State_Abrvtn = "CA"])
    IN  [i \in 1..Len(ca) |->
            [Rndrng_NPI |-> ca[i].Rndrng_NPI, Rndrng_Prvdr_Type |-> ca[i].Rndrng_Prvdr_Type,
             Tot_Benes |-> ca[i].Tot_Benes, Tot_Mdcr_Pymt_Amt |-> ca[i].Tot_Mdcr_Pymt_Amt,
             zipcode |-> zfill(astype_str(ca[i].Rndrng_Prvdr_Zip5), 5)]]

JoinedRow(l, c) ==
    [Rndrng_NPI |-> l.Rndrng_NPI, Rndrng_Prvdr_Type |-> l.Rndrng_Prvdr_Type,
     Tot_Benes |-> l.Tot_Benes, Tot_Mdcr_Pymt_Amt |-> l.Tot_Mdcr_Pymt_Amt,
     zipcode |-> l.zipcode, county |-> c]

\* the county pandas leaves in a left row that matches nothing
NoCounty == "NaN"

\* the rows a left join makes of one left row: one per matching right row, in
\* the right table's order, or one with a missing county
joined_rows(l, right) ==
    LET hits == Filter(right, [j \in 1..Len(right) |-> right[j].zipcode = l.zipcode])
    IN  IF hits = <<>> THEN <<JoinedRow(l, NoCounty)>>
        ELSE [j \in 1..Len(hits) |-> JoinedRow(l, hits[j].county)]

\* line 80: pd.merge(df_ca, zip_map[['zipcode', 'county']], on='zipcode', how='left')
RECURSIVE merge_zip(_, _)
merge_zip(left, right) ==
    IF left = <<>> THEN <<>>
    ELSE joined_rows(Head(left), right) \o merge_zip(Tail(left), right)

TypeRank(ty) == CASE ty = "Cardiology" -> 1 [] ty = "Nursing" -> 2

\* lines 15-16 and 32-33: frame['DATE'].max(), and the rows of that date
latest_date(frame) ==
    IF frame = <<>> THEN NaT
    ELSE CHOOSE d \in {frame[i].DATE : i \in 1..Len(frame)} :
            \A i \in 1..Len(frame) : DateNum(frame[i].DATE) <= DateNum(d)
latest_enrollment(frame) ==
    Filter(frame, [i \in 1..Len(frame) |-> frame[i].DATE = latest_date(frame)])

\* lines 18 and 35: latest.groupby('COUNTY')['ENROLLED'].sum().reset_index()
county_enrollment(frame) ==
    LET latest == latest_enrollment(frame)
        g == groupby_sum([i \in 1..Len(latest) |-> <<CountyRank(latest[i].COUNTY)>>],
                         [i \in 1..Len(latest) |-> latest[i].ENROLLED])
    IN  [k \in 1..Len(g) |->
            [COUNTY |-> latest[g[k].first].COUNTY, ENROLLED |-> Num(g[k].sum)]]

\* line 21: the number of counties kept
TopN == 10

\* line 21 keeping every county
all_counties_top(enrl) == {{enrl[i].COUNTY : i \in 1..Len(enrl)}}
\* line 21: sort_values('ENROLLED', ascending=False).head(10)['COUNTY'].tolist(),
\* as the sets of counties the list can hold
top_county_sets(enrl) ==
    {{enrl[i].COUNTY : i \in T} :
        T \in head_desc([i \in 1..Len(enrl) |-> enrl[i].ENROLLED], TopN)}

\* lines 36 and 44: rename(columns={'ENROLLED': 'MA_ENROLLED'})
rename_ma(rows) ==
    [i \in 1..Len(rows) |-> [COUNTY |-> rows[i].COUNTY, MA_ENROLLED |-> rows[i].ENROLLED]]

\* lines 29-45: the table written to outputs/ma_county_enrollment.csv, from
\* the state totals or, when they cannot be read, from the PACE table
ma_county_enrollment(total_file, enrl) ==
    IF total_file.exists THEN rename_ma(county_enrollment(total_file.rows))
    ELSE rename_ma(enrl)

\* line 83: df_merged[df_merged['county'].isin(top_counties)]
df_target(merged, top) ==
    Filter(merged, [i \in 1..Len(merged) |-> merged[i].county \in top])

\* lines 98-99 over the rows of the target counties only
specialty_sums(merged) ==
    LET keys == [i \in 1..Len(merged) |-> <<TypeRank(merged[i].Rndrng_Prvdr_Type)>>]
        pay  == groupby_sum(keys, [i \in 1..Len(merged) |-> Num(merged[i].Tot_Mdcr_Pymt_Amt)])
        ben  == groupby_sum(keys, [i \in 1..Len(merged) |-> Num(merged[i].Tot_Benes)])
    IN  [k \in 1..Len(pay) |->
            [Rndrng_Prvdr_Type |-> merged[pay[k].first].Rndrng_Prvdr_Type,
             Tot_Mdcr_Pymt_Amt |-> pay[k].sum, Tot_Benes |-> ben[k].sum,
             State_Avg_Cost |-> np_divide(pay[k].sum, Num(ben[k].sum))]]

\* lines 98-101 with the table cut to its first row
ca_specialty_head(merged) ==
    IF specialty_sums(merged) = <<>> THEN <<>> ELSE <<Head(specialty_sums(merged))>>
\* lines 98-101: the table written to outputs/kpi_state_benchmarks.csv
ca_specialty(merged) == specialty_sums(merged)

PpInit ==
    /\ \E rows \in SeqsUpTo(ZipRows, MaxZipRows), e \in BOOLEAN :
          zip_map_file = [exists |-> e \/ rows # <<>>, rows |-> rows]
    /\ \E rows \in SeqsUpTo(ProvRows, MaxProvRows), e \in BOOLEAN :
          prov_file = [exists |-> e \/ rows # <<>>, rows |-> rows]
    /\ pp_status = "none"
    /\ df_ca = <<>>
    /\ df_merged = <<>>
    /\ top_counties = {}
    /\ kpi_file = NoFile

PpIdle ==
    /\ zip_map_file = NoFile
    /\ prov_file = NoFile
    /\ pp_status = "none"
    /\ df_ca = <<>>
    /\ df_merged = <<>>
    /\ top_counties = {}
    /\ kpi_file = NoFile

\* process_provider_data().  read_csv of line 7 raises when the crosswalk is
\* absent; line 26 returns when the combined enrollment cannot be read; the MA
\* enrollment table is written at line 38 or 45; line 59 returns when the
\* provider file is absent; lines 91 and 101 write the other two tables.
ProcessProviderData ==
    /\ pp_status = "none"
    /\ IF ~zip_map_file.exists
       THEN /\ pp_status' = "raised"
            /\ UNCHANGED <<df_ca, df_merged, top_counties, kpi_file, prov_df, ma_enrl_df>>
       ELSE IF ~outputs.enrl.exists
       THEN /\ pp_status' = "returned at line 26"
            /\ UNCHANGED <<df_ca, df_merged, top_counties, kpi_file, prov_df, ma_enrl_df>>
       ELSE \E top \in top_county_sets(county_enrollment(outputs.enrl.rows)) :
               /\ top_counties' = top
               /\ ma_enrl_df' =
                     to_file(ma_enrl_df,
                             ma_county_enrollment(outputs.total_ma,
                                                  county_enrollment(outputs.enrl.rows)))
               /\ IF ~prov_file.exists
                  THEN /\ pp_status' = "returned at line 59"
                       /\ UNCHANGED <<df_ca, df_merged, kpi_file, prov_df>>
                  ELSE LET merged == merge_zip(filter_ca(prov_file.rows),
                                               zip_map(zip_map_file.rows))
                       IN  /\ pp_status' = "done"
                           /\ df_ca' = filter_ca(prov_file.rows)
                           /\ df_merged' = merged
                           /\ prov_df' = to_file(prov_df, df_target(merged, top))
                           /\ kpi_file' = to_file(kpi_file, ca_specialty(merged))
    /\ UNCHANGED <<zip_map_file, prov_file, agg_vars, dl_vars, df, geo_counties, page,
                   widgets, map_data, gap_df, chart_data, banners, title, dash_status,
                   drv_vars>>

(***************************************************************************)
(* Dashboard: dashboard.main, Geographic Distribution page                 *)
(***************************************************************************)
EnrlRow(c, d, e) ==
    [STATE |-> "CA", COUNTY |-> c, PLAN_TYPE |-> PACE, DATE |-> d, ENROLLED |-> e]

\* rows of outputs/Combined enrollment.xlsx as the dashboard may find them
EnrlRows ==
    {EnrlRow(c, d, e) : c \in {"Alameda", "Butte", "Yolo"},
                        d \in {<<2023, 1>>, <<2023, 2>>}, e \in {Num(3), NaN}}

\* the county names of the GeoJSON features
GeoLists == {<<"Alameda", "Butte", "Colusa">>, <<"Butte", "Alameda">>}

\* lines 54-64: load_data() returns the table, or an empty one when reading fails
load_data(file) == IF file.exists THEN file.rows ELSE <<>>

\* load_data() writing the table it loaded back to the file
after_load_saved(file) == to_file(file, load_data(file))
\* lines 57-64: the file as load_data() leaves it: read_excel only reads
after_load(file) == file

\* DataFrame.empty of the table load_data returned
df_never_empty(frame) == FALSE
df_empty(frame) == frame = <<>>

\* lines 63 and 108: the st.error of load_data and the st.warning of main
load_banners(file) ==
    (IF file.exists THEN {} ELSE {"Error loading data"})
    \cup (IF df_empty(load_data(file)) THEN {"No enrollment data available"} ELSE {})

\* line 207: the options of the slider
dates(frame) == {frame[i].DATE : i \in 1..Len(frame)}

\* line 221
latest_df(frame, selected_date) ==
    Filter(frame, [i \in 1..Len(frame) |-> frame[i].DATE = selected_date])

\* the rows the left join of line 233 makes of one county
county_rows(c, right) ==
    LET hits == Filter(right, [j \in 1..Len(right) |-> right[j].COUNTY = c])
    IN  IF hits = <<>>
        THEN <<[STATE |-> "NaN", COUNTY |-> c, PLAN_TYPE |-> "NaN", DATE |-> NaT,
                ENROLLED |-> NaN]>>
        ELSE hits

\* line 233: pd.merge(all_counties_df, latest_df, on='COUNTY', how='left')
RECURSIVE merge_counties(_, _)
merge_counties(all_counties, right) ==
    IF all_counties = <<>> THEN <<>>
    ELSE county_rows(Head(all_counties), right) \o merge_counties(Tail(all_counties), right)

\* line 236 without the fillna
map_fillna_dropped(rows) == rows
\* line 236: map_data['ENROLLED'].fillna(0)
map_fillna(rows) == [i \in 1..Len(rows) |-> [rows[i] EXCEPT !.ENROLLED = fillna0(@)]]

\* lines 221-236
build_map_data(frame, all_counties, selected_date) ==
    map_fillna(merge_counties(all_counties, latest_df(frame, selected_date)))

NoChart == [shown |-> FALSE, rows |-> <<>>]
NoWidgets ==
    [selected_date |-> NaT, selected_counties |-> {}, selected_gap_spec |-> "",
     date_range |-> <<>>]
NoTrend == [shown |-> FALSE, rows |-> <<>>, top_counties |-> {}]

DashIdle ==
    /\ df = <<>>
    /\ geo_counties = <<>>
    /\ prov_df = NoFile
    /\ ma_enrl_df = NoFile
    /\ page = "none"
    /\ widgets = NoWidgets
    /\ map_data = NoChart
    /\ gap_df = NoChart
    /\ chart_data = NoTrend
    /\ banners = {}
    /\ title = ""
    /\ dash_status = "none"

\* main() with the Geographic Distribution page selected: the slider is at
\* selected_date and load_geojson() succeeds or raises
RenderGeographic ==
    /\ page' = "Geographic Distribution"
    /\ df' = load_data(outputs.enrl)
    /\ dash_status' = "ok"
    /\ IF df_empty(load_data(outputs.enrl))
       THEN /\ widgets' = NoWidgets
            /\ map_data' = NoChart
            /\ title' = ""
            /\ banners' = load_banners(outputs.enrl)
       ELSE \E selected_date \in dates(load_data(outputs.enrl)), geojson_loaded \in BOOLEAN :
               /\ widgets' = [NoWidgets EXCEPT !.selected_date = selected_date]
               /\ title' = "Geographic Distribution"
               /\ banners' = load_banners(outputs.enrl) \cup
                                (IF geojson_loaded THEN {} ELSE {"Could not load map"})
               /\ map_data' =
                     IF geojson_loaded
                     THEN [shown |-> TRUE,
                           rows |-> build_map_data(load_data(outputs.enrl), geo_counties,
                                                   selected_date)]
                     ELSE NoChart
    /\ outputs' = [outputs EXCEPT !.enrl = after_load(@)]
    /\ UNCHANGED <<geo_counties, prov_df, ma_enrl_df, gap_df, chart_data, csv, file_list,
                   before_out, cc_calls, cc_status, dl_vars, pp_vars, drv_vars>>


(***************************************************************************)
(* Dashboard: dashboard.main, Provider Insights page, gap analysis         *)
(***************************************************************************)
DetRow(npi, c, ty) == [Rndrng_NPI |-> npi, county |-> c, Rndrng_Prvdr_Type |-> ty]
MaRow(c, e) == [COUNTY |-> c, MA_ENROLLED |-> e]

\* rows of outputs/provider_data_detailed.csv and outputs/ma_county_enrollment.csv
DetRows == {DetRow(npi, "Alameda", ty) : npi \in {1, 2}, ty \in {"Cardiology", "Nursing"}}
           \cup {DetRow(1, "Butte", ty) : ty \in {"Cardiology", "Nursing"}}
MaRows  == {MaRow("Alameda", Num(0)), MaRow("Alameda", Num(3)),
            MaRow("Butte", Num(0)), MaRow("Butte", Num(6))}

AllSpecialties == "All Specialties"

\* line 288
available_counties(rows) == {rows[i].county : i \in 1..Len(rows)}

\* line 301
filtered_prov(rows, selected_counties) ==
    Filter(rows, [i \in 1..Len(rows) |-> rows[i].county \in selected_counties])

\* lines 444-445: the options of the specialty selectbox
gap_specialties(filtered) ==
    {AllSpecialties} \cup {filtered[i].Rndrng_Prvdr_Type : i \in 1..Len(filtered)}

\* lines 449-454
gap_filtered_prov(filtered, selected_gap_spec) ==
    IF selected_gap_spec = AllSpecialties THEN filtered
    ELSE Filter(filtered, [i \in 1..Len(filtered) |->
                              filtered[i].Rndrng_Prvdr_Type = selected_gap_spec])

\* line 457: groupby('county')['Rndrng_NPI'].nunique()
prov_counts(rows) ==
    LET ks == SortKeys({<<CountyRank(rows[i].county)>> : i \in 1..Len(rows)})
    IN  [g \in 1..Len(ks) |->
            LET c == (CHOOSE i \in 1..Len(rows) : <<CountyRank(rows[i].county)>> = ks[g])
            IN  [county |-> rows[c].county,
                 Provider_Count |->
                    Cardinality({rows[i].Rndrng_NPI :
                                    i \in {j \in 1..Len(rows) : rows[j].county = rows[c].county}})]]

\* the rows the left join of line 460 makes of one county's count
gap_rows(l, right) ==
    LET hits == Filter(right, [j \in 1..Len(right) |-> right[j].COUNTY = l.county])
    IN  IF hits = <<>>
        THEN <<[county |-> l.county, Provider_Count |-> l.Provider_Count,
                COUNTY |-> "NaN", MA_ENROLLED |-> NaN]>>
        ELSE [j \in 1..Len(hits) |->
                [county |-> l.county, Provider_Count |-> l.Provider_Count,
                 COUNTY |-> hits[j].COUNTY, MA_ENROLLED |-> hits[j].MA_ENROLLED]]

\* line 460
RECURSIVE merge_ma(_, _)
merge_ma(left, right) ==
    IF left = <<>> THEN <<>>
    ELSE gap_rows(Head(left), right) \o merge_ma(Tail(left), right)

\* lines 461-464
with_density(rows) ==
    [i \in 1..Len(rows) |->
        LET ma == fillna0(rows[i].MA_ENROLLED)
        IN  [county |-> rows[i].county, Provider_Count |-> rows[i].Provider_Count,
             COUNTY |-> rows[i].COUNTY, MA_ENROLLED |-> ma,
             Providers_Per_100_MA_Enrolled |-> times(np_divide(rows[i].Provider_Count, ma), 100)]]

\* line 466 without the filter
keep_all(rows) == rows
\* line 466: gap_df[gap_df['MA_ENROLLED'] > 0]
positive_ma(rows) == Filter(rows, [i \in 1..Len(rows) |-> rows[i].MA_ENROLLED[2] > 0])

RatioLess(p, q) == p.n * q.d < q.n * p.d

RECURSIVE sort_density(_)
\* line 468: ascending by density, equal densities in their former order
sort_density(rows) ==
    IF rows = <<>> THEN <<>>
    ELSE LET m == CHOOSE i \in 1..Len(rows) :
                     /\ \A j \in 1..Len(rows) :
                           ~RatioLess(rows[j].Providers_Per_100_MA_Enrolled,
                                      rows[i].Providers_Per_100_MA_Enrolled)
                     /\ \A j \in 1..(i - 1) :
                           RatioLess(rows[i].Providers_Per_100_MA_Enrolled,
                                     rows[j].Providers_Per_100_MA_Enrolled)
         IN  <<rows[m]>> \o sort_density(Filter(rows, [i \in 1..Len(rows) |-> i # m]))

\* lines 456-468
build_gap_df(gap_filtered, ma_rows) ==
    sort_density(positive_ma(with_density(merge_ma(prov_counts(gap_filtered), ma_rows))))

\* main() with the Provider Insights page selected, the county multiselect at
\* selected_counties and the gap specialty selectbox at selected_gap_spec
RenderProviderInsights ==
    /\ page' = "Provider Insights"
    /\ df' = load_data(outputs.enrl)
    /\ dash_status' = "ok"
    /\ title' = "Provider Network Insights"
    /\ IF ~(prov_df.exists /\ kpi_file.exists /\ ma_enrl_df.exists)
       THEN /\ widgets' = NoWidgets
            /\ gap_df' = NoChart
            /\ banners' = load_banners(outputs.enrl) \cup {"KPI Data not found"}
       ELSE \E selected_counties \in SUBSET available_counties(prov_df.rows) :
               IF selected_counties = {}
               THEN /\ widgets' = NoWidgets
                    /\ gap_df' = NoChart
                    /\ banners' = load_banners(outputs.enrl)
                                      \cup {"Please select at least one county"}
               ELSE \E selected_gap_spec \in
                          gap_specialties(filtered_prov(prov_df.rows, selected_counties)) :
                       /\ widgets' = [NoWidgets EXCEPT !.selected_counties = selected_counties,
                                                       !.selected_gap_spec = selected_gap_spec]
                       /\ banners' = load_banners(outputs.enrl)
                       /\ gap_df' =
                             [shown |-> TRUE,
                              rows |-> build_gap_df(
                                          gap_filtered_prov(
                                              filtered_prov(prov_df.rows, selected_counties),
                                              selected_gap_spec),
                                          ma_enrl_df.rows)]
    /\ outputs' = [outputs EXCEPT !.enrl = after_load(@)]
    /\ UNCHANGED <<geo_counties, prov_df, ma_enrl_df, map_data, chart_data, csv, file_list,
                   before_out, cc_calls, cc_status, dl_vars, pp_vars, drv_vars>>

(***************************************************************************)
(* Dashboard: dashboard.main, the other pages                              *)
(***************************************************************************)
\* a day of the calendar: a month and a day of it
DayNum(day) == DateNum(day[1]) * 100 + day[2]

\* lines 149-157: the days st.date_input offers between min_date and max_date
\* (the first of every month of the table, and a day inside every month but
\* the last), and what it returns: a pair of days in order or, while the user
\* has picked the start only, a single day
date_days(frame) ==
    {<<d, 1>> : d \in dates(frame)}
    \cup {<<d, 15>> : d \in dates(frame) \ {latest_date(frame)}}
date_inputs(frame) ==
    {<<a>> : a \in date_days(frame)}
    \cup {p \in date_days(frame) \X date_days(frame) : DayNum(p[1]) <= DayNum(p[2])}

\* lines 160-161: df.loc[mask]
filter_dates(frame, start_date, end_date) ==
    Filter(frame, [i \in 1..Len(frame) |->
                      /\ DayNum(<<frame[i].DATE, 1>>) >= DayNum(start_date)
                      /\ DayNum(<<frame[i].DATE, 1>>) <= DayNum(end_date)])

\* line 84: the number of counties drawn on their own
TopTrend == 7
Others == "Others"

\* line 83: df.groupby('COUNTY')['ENROLLED'].sum()
county_totals(frame) ==
    LET g == groupby_sum([i \in 1..Len(frame) |-> <<CountyRank(frame[i].COUNTY)>>],
                         [i \in 1..Len(frame) |-> frame[i].ENROLLED])
    IN  [k \in 1..Len(g) |->
            [COUNTY |-> frame[g[k].first].COUNTY, ENROLLED |-> Num(g[k].sum)]]

\* lines 83-84: sort_values(ascending=False).head(7).index.tolist(), as the sets
\* of counties the list can hold
trend_top_sets(frame) ==
    LET tot == county_totals(frame)
    IN  {{tot[i].COUNTY : i \in T} :
            T \in head_desc([i \in 1..Len(tot) |-> tot[i].ENROLLED], TopTrend)}

\* line 87 without the bucket
county_ungrouped(c, top) == c
\* line 87: x if x in top_counties else 'Others'
county_grouped(c, top) == IF c \in top THEN c ELSE Others

\* the place of a group name in the order groupby sorts names in
GroupRank(g) ==
    IF g = Others THEN 2 * CountyRank("Orange") + 1 ELSE 2 * CountyRank(g)

\* line 90: df.groupby(['DATE', 'County_Grouped'])['ENROLLED'].sum().reset_index()
df_grouped(frame, top) ==
    LET grp(i) == county_grouped(frame[i].COUNTY, top)
        g == groupby_sum([i \in 1..Len(frame) |-> <<DateNum(frame[i].DATE), GroupRank(grp(i))>>],
                         [i \in 1..Len(frame) |-> frame[i].ENROLLED])
    IN  [k \in 1..Len(g) |->
            [DATE |-> frame[g[k].first].DATE, County_Grouped |-> grp(g[k].first),
             ENROLLED |-> Num(g[k].sum)]]

\* lines 77-92: process_data(df), as the results it can return
process_data(frame) ==
    IF df_empty(frame) THEN {[shown |-> TRUE, rows |-> <<>>, top_counties |-> {}]}
    ELSE {[shown |-> TRUE, rows |-> df_grouped(frame, top), top_counties |-> top] :
             top \in trend_top_sets(frame)}

\* main() with the Methodology page selected
RenderMethodology ==
    /\ page' = "Methodology"
    /\ df' = load_data(outputs.enrl)
    /\ dash_status' = "ok"
    /\ title' = "Methodology"
    /\ banners' = load_banners(outputs.enrl)
    /\ widgets' = NoWidgets
    /\ outputs' = [outputs EXCEPT !.enrl = after_load(@)]
    /\ UNCHANGED <<geo_counties, prov_df, ma_enrl_df, map_data, gap_df, chart_data, csv,
                   file_list, before_out, cc_calls, cc_status, dl_vars, pp_vars, drv_vars>>

\* main() with the Enrollment Trends page selected and st.date_input holding
\* picked.  Line 152 raises ValueError when picked is a single day; px.bar
\* of line 167 raises ValueError when no row is in the range, for
\* process_data then returns the frame without a County_Grouped column.
RenderEnrollmentTrends ==
    /\ page' = "Enrollment Trends"
    /\ df' = load_data(outputs.enrl)
    /\ banners' = load_banners(outputs.enrl)
    /\ IF df_empty(load_data(outputs.enrl))
       THEN /\ title' = ""
            /\ widgets' = NoWidgets
            /\ chart_data' = NoTrend
            /\ dash_status' = "ok"
       ELSE \E picked \in date_inputs(load_data(outputs.enrl)) :
               /\ title' = "PACE Enrollment Trends"
               /\ widgets' = [NoWidgets EXCEPT !.date_range = picked]
               /\ IF Len(picked) = 1
                  THEN /\ chart_data' = NoTrend
                       /\ dash_status' = "raised"
                  ELSE IF filter_dates(load_data(outputs.enrl), picked[1], picked[2]) = <<>>
                  THEN /\ chart_data' = NoTrend
                       /\ dash_status' = "raised"
                  ELSE /\ chart_data' \in
                             process_data(filter_dates(load_data(outputs.enrl),
                                                       picked[1], picked[2]))
                       /\ dash_status' = "ok"
    /\ outputs' = [outputs EXCEPT !.enrl = after_load(@)]
    /\ UNCHANGED <<geo_counties, prov_df, ma_enrl_df, map_data, gap_df, csv, file_list,
                   before_out, cc_calls, cc_status, dl_vars, pp_vars, drv_vars>>

\* main() with the Strategy Write-up page selected
RenderStrategy ==
    /\ page' = "Strategy Write-up"
    /\ df' = load_data(outputs.enrl)
    /\ dash_status' = "ok"
    /\ title' = "Strategy Write-up"
    /\ banners' = load_banners(outputs.enrl)
    /\ widgets' = NoWidgets
    /\ outputs' = [outputs EXCEPT !.enrl = after_load(@)]
    /\ UNCHANGED <<geo_counties, prov_df, ma_enrl_df, map_data, gap_df, chart_data, csv,
                   file_list, before_out, cc_calls, cc_status, dl_vars, pp_vars, drv_vars>>

(***************************************************************************)
(* Combined enrollment tables with many counties.                          *)
(***************************************************************************)
MaxCounties == 11   \* counties of the combined enrollment table

\* the latest-month enrollment of the i-th of n counties: rising, falling, or
\* equal in pairs
Patterns == {"asc", "desc", "pairs"}
enrolled_of(pat, i, n) ==
    CASE pat = "asc" -> i [] pat = "desc" -> n + 1 - i [] pat = "pairs" -> (i + 1) \div 2

\* the rows of the i-th county: its latest month and, for the first two
\* counties of a table with an earlier month, a large count in that month
county_block(i, n, pat, old) ==
    (IF old /\ i <= 2 THEN <<EnrlRow(Counties[i], <<2023, 1>>, Num(20))>> ELSE <<>>)
    \o <<EnrlRow(Counties[i], <<2023, 2>>, Num(enrolled_of(pat, i, n)))>>

RECURSIVE blocks(_, _, _, _)
blocks(i, n, pat, old) ==
    IF i > n THEN <<>> ELSE county_block(i, n, pat, old) \o blocks(i + 1, n, pat, old)

\* outputs/Combined enrollment.xlsx as clean_and_combine leaves it: one row
\* per county and month, in the order of the keys
EnrlTables ==
    {blocks(1, n, pat, old) : n \in 0..MaxCounties, pat \in Patterns, old \in BOOLEAN}

\* outputs/MA_Enrollment_Total.xlsx next to such a table: every county and
\* month with its PACE count and ten enrolled in other plans
TotalTable(t) ==
    [i \in 1..Len(t) |->
        [STATE |-> t[i].STATE, COUNTY |-> t[i].COUNTY, DATE |-> t[i].DATE,
         ENROLLED |-> Num(t[i].ENROLLED[2] + 10)]]

(***************************************************************************)
(* Enrollment pipeline driver: process_all_enrollment_data.py              *)
(***************************************************************************)
\* a directory is the sequence of names leading to it from the root
ScriptDir == <<"repo">>          \* the directory holding the scripts
Unset     == <<"<unset>">>       \* a name not bound yet

\* enrollment_processing.py lines 135-137: the directory that holds the file
\* named directory + r'\outputs\<name>'.  Where the backslash separates
\* directories that is directory\outputs; elsewhere the backslashes are part
\* of the file's name and the file sits next to directory (in the root when
\* directory is the root).
out_folder(os, base) ==
    IF os = "nt" THEN Append(base, "outputs")
    ELSE IF base = <<>> THEN <<>> ELSE SubSeq(base, 1, Len(base) - 1)

\* the directories that always exist: the root, the scripts' and another
BaseFolders == {<<>>, <<"repo">>, <<"work">>}

DrvIdle ==
    /\ drv_pc = "idle"
    /\ os_name = "nt"
    /\ cwd = ScriptDir
    /\ folders = BaseFolders
    /\ ep_directory = Unset
    /\ drv_directory = Unset
    /\ made_dir = Unset
    /\ out_at = Unset

\* line 5: enrollment_processing is imported, and its line 13 binds directory
\* to the working directory the script was launched from
DrvImport ==
    /\ drv_pc = "line 5"
    /\ ep_directory' = cwd
    /\ drv_pc' = "line 26"
    /\ UNCHANGED <<os_name, cwd, folders, drv_directory, made_dir, out_at,
                   agg_vars, dl_vars, pp_vars, dash_vars>>

\* lines 26-29: os.chdir to the directory of the script, then os.getcwd()
DrvChdir ==
    /\ drv_pc = "line 26"
    /\ cwd' = ScriptDir
    /\ drv_directory' = cwd'
    /\ drv_pc' = "line 32"
    /\ UNCHANGED <<os_name, folders, ep_directory, made_dir, out_at,
                   agg_vars, dl_vars, pp_vars, dash_vars>>

\* line 32: os.makedirs(os.path.join(directory, 'outputs'), exist_ok=True)
DrvMakedirs ==
    /\ drv_pc = "line 32"
    /\ made_dir' = Append(drv_directory, "outputs")
    /\ folders' = folders \cup {made_dir'}
    /\ drv_pc' = "line 40"
    /\ UNCHANGED <<os_name, cwd, ep_directory, drv_directory, out_at,
                   agg_vars, dl_vars, pp_vars, dash_vars>>

\* line 40: download_and_unzip(enrl_files) is called once and runs
DrvDownload ==
    /\ drv_pc = "line 40"
    /\ \/ dl_runs = 0 /\ DlCall
       \/ DlIteration
       \/ DlKeyError
       \/ DlReturn

\* line 40 is left: with the return of download_and_unzip, or with its KeyError
DrvDownloaded ==
    /\ drv_pc = "line 40"
    /\ dl_pc \in {"returned", "raised"}
    /\ drv_pc' = IF dl_pc = "returned" THEN "line 45" ELSE "raised"
    /\ UNCHANGED <<os_name, cwd, folders, ep_directory, drv_directory, made_dir, out_at,
                   agg_vars, dl_vars, pp_vars, dash_vars>>

\* line 45: clean_and_combine(enrl_files, states).  Its three writes go to
\* enrollment_processing.directory; to_excel raises when the directory to
\* write into does not exist, and then nothing is written.
DrvCleanAndCombine ==
    /\ drv_pc = "line 45"
    /\ LET r      == clean_and_combine(file_list, csv, outputs)
           target == out_folder(os_name, ep_directory)
       IN  IF r.raised \/ target \notin folders
           THEN /\ cc_status' = "failed"
                /\ drv_pc' = "raised"
                /\ UNCHANGED <<outputs, out_at>>
           ELSE /\ cc_status' = "ok"
                /\ drv_pc' = "done"
                /\ outputs' = r.out
                /\ out_at' = target
    /\ before_out' = outputs
    /\ cc_calls' = cc_calls + 1
    /\ UNCHANGED <<csv, file_list, os_name, cwd, folders, ep_directory, drv_directory,
                   made_dir, dl_vars, pp_vars, dash_vars>>

(***************************************************************************)
(* Specifications, one per component.                                      *)
(***************************************************************************)
\* the enrollment aggregation step, run repeatedly over the same raw files
AggNext == CleanAndCombine
InitAgg == AggInit /\ DlIdle /\ PpIdle /\ DashIdle /\ DrvIdle
SpecAgg == InitAgg /\ [][AggNext]_vars

\* the downloader, called repeatedly over the same file_list
DlNext == DlCall \/ DlIteration \/ DlKeyError \/ DlReturn
InitDl == AggIdle /\ DlInit /\ PpIdle /\ DashIdle /\ DrvIdle
SpecDl == InitDl /\ [][DlNext]_vars

\* the provider aggregator, with the combined enrollment present or absent
PpAggInit ==
    /\ csv = (202301 :> NoFile) @@ (202302 :> NoFile)
    /\ file_list = <<>>
    /\ \E e \in BOOLEAN :
          outputs = [enrl |-> [exists |-> e, rows |-> <<>>],
                     total_ma |-> [exists |-> e, rows |-> <<>>],
                     national |-> [exists |-> e, rows |-> <<>>]]
    /\ before_out = outputs
    /\ cc_calls = 0
    /\ cc_status = "none"
PpNext == ProcessProviderData
InitPp == PpAggInit /\ DlIdle /\ PpInit /\ DashIdle /\ DrvIdle
SpecPp == InitPp /\ [][PpNext]_vars

\* the Geographic Distribution page over any combined enrollment table
GeoInit ==
    /\ csv = (202301 :> NoFile) @@ (202302 :> NoFile)
    /\ file_list = <<>>
    /\ \E rows \in SeqsUpTo(EnrlRows, MaxEnrlRows), e \in BOOLEAN :
          outputs = [enrl |-> [exists |-> e \/ rows # <<>>, rows |-> rows],
                     total_ma |-> NoFile, national |-> NoFile]
    /\ before_out = outputs
    /\ cc_calls = 0
    /\ cc_status = "none"
    /\ df = <<>>
    /\ geo_counties \in GeoLists
    /\ prov_df = NoFile
    /\ ma_enrl_df = NoFile
    /\ page = "none"
    /\ widgets = NoWidgets
    /\ map_data = NoChart
    /\ gap_df = NoChart
    /\ chart_data = NoTrend
    /\ banners = {}
    /\ title = ""
    /\ dash_status = "none"
GeoNext == RenderGeographic
InitGeo == GeoInit /\ DlIdle /\ PpIdle /\ DrvIdle
SpecGeo == InitGeo /\ [][GeoNext]_vars

\* the Provider Insights page over any detailed provider and MA enrollment tables
GapInit ==
    /\ df = <<>>
    /\ geo_counties = <<>>
    /\ \E rows \in SeqsUpTo(DetRows, MaxDetRows), e \in BOOLEAN :
          prov_df = [exists |-> e \/ rows # <<>>, rows |-> rows]
    /\ \E rows \in SeqsUpTo(MaRows, MaxMaRows), e \in BOOLEAN :
          ma_enrl_df = [exists |-> e \/ rows # <<>>, rows |-> rows]
    /\ page = "none"
    /\ widgets = NoWidgets
    /\ map_data = NoChart
    /\ gap_df = NoChart
    /\ chart_data = NoTrend
    /\ banners = {}
    /\ title = ""
    /\ dash_status = "none"
    /\ zip_map_file = NoFile
    /\ prov_file = NoFile
    /\ pp_status = "none"
    /\ df_ca = <<>>
    /\ df_merged = <<>>
    /\ top_counties = {}
    /\ kpi_file \in {NoFile, [exists |-> TRUE, rows |-> <<>>]}
GapNext == RenderProviderInsights
InitGap == AggIdle /\ DlIdle /\ GapInit /\ DrvIdle
SpecGap == InitGap /\ [][GapNext]_vars

\* the provider aggregator over combined enrollment tables with many counties
TopZipMaps ==
    {<<ZipRow(94501, "Alameda"), ZipRow(94501, "Butte")>>, <<ZipRow(94501, "Butte")>>}
TopProvRows == {r \in ProvRows : r.Rndrng_Prvdr_State_Abrvtn = "CA"}
TopInit ==
    /\ csv = (202301 :> NoFile) @@ (202302 :> NoFile)
    /\ file_list = <<>>
    /\ \E t \in EnrlTables, total \in BOOLEAN :
          outputs = [enrl     |-> [exists |-> TRUE, rows |-> t],
                     total_ma |-> IF total THEN [exists |-> TRUE, rows |-> TotalTable(t)]
                                  ELSE NoFile,
                     national |-> NoFile]
    /\ before_out = outputs
    /\ cc_calls = 0
    /\ cc_status = "none"
    /\ \E rows \in TopZipMaps : zip_map_file = [exists |-> TRUE, rows |-> rows]
    /\ \E rows \in SeqsUpTo(TopProvRows, MaxProvRows) :
          prov_file = [exists |-> TRUE, rows |-> rows]
    /\ pp_status = "none"
    /\ df_ca = <<>>
    /\ df_merged = <<>>
    /\ top_counties = {}
    /\ kpi_file = NoFile
TopNext == ProcessProviderData
InitTop == TopInit /\ DlIdle /\ DashIdle /\ DrvIdle
SpecTop == InitTop /\ [][TopNext]_vars

\* the dashboard, page after page, over any combined enrollment table and with
\* the three provider tables present or absent
DashInit ==
    /\ csv = (202301 :> NoFile) @@ (202302 :> NoFile)
    /\ file_list = <<>>
    /\ \E t \in EnrlTables, e \in BOOLEAN :
          outputs = [enrl     |-> [exists |-> e \/ t # <<>>, rows |-> t],
                     total_ma |-> NoFile, national |-> NoFile]
    /\ before_out = outputs
    /\ cc_calls = 0
    /\ cc_status = "none"
    /\ df = <<>>
    /\ geo_counties = <<"Alameda", "Butte", "Colusa">>
    /\ \E kpi \in BOOLEAN :
          /\ prov_df = IF kpi THEN [exists |-> TRUE,
                                    rows |-> <<DetRow(1, "Alameda", "Cardiology"),
                                               DetRow(2, "Butte", "Nursing")>>]
                       ELSE NoFile
          /\ ma_enrl_df = IF kpi THEN [exists |-> TRUE, rows |-> <<MaRow("Alameda", Num(3))>>]
                          ELSE NoFile
          /\ kpi_file = IF kpi THEN [exists |-> TRUE, rows |-> <<>>] ELSE NoFile
    /\ zip_map_file = NoFile
    /\ prov_file = NoFile
    /\ pp_status = "none"
    /\ df_ca = <<>>
    /\ df_merged = <<>>
    /\ top_counties = {}
    /\ page = "none"
    /\ widgets = NoWidgets
    /\ map_data = NoChart
    /\ gap_df = NoChart
    /\ chart_data = NoTrend
    /\ banners = {}
    /\ title = ""
    /\ dash_status = "none"
DashNext ==
    \/ RenderMethodology
    \/ RenderEnrollmentTrends
    \/ RenderGeographic
    \/ RenderProviderInsights
    \/ RenderStrategy
InitDash == DashInit /\ DlIdle /\ DrvIdle
SpecDash == InitDash /\ [][DashNext]_vars

\* the enrollment aggregation step over outputs an earlier run may have left
RerunRows == {RawRow("CA", "Alameda", PACE, Num(1)), RawRow("CA", "Butte", "HMO", Num(1))}
PrevDisk ==
    (202301 :> [exists |-> TRUE, rows |-> <<RawRow("CA", "Alameda", PACE, Num(2))>>])
    @@ (202302 :> NoFile)
NoOutputs == [enrl |-> NoFile, total_ma |-> NoFile, national |-> NoFile]
PrevOutputs == {NoOutputs, clean_and_combine(<<202301>>, PrevDisk, NoOutputs).out}
RerunInit ==
    /\ \E r1 \in SeqsUpTo(RerunRows, MaxRows) :
       \E r2 \in SeqsUpTo(RerunRows, MaxRows - Len(r1)) :
       \E e1 \in (IF r1 = <<>> THEN BOOLEAN ELSE {TRUE}) :
       \E e2 \in (IF r2 = <<>> THEN BOOLEAN ELSE {TRUE}) :
          csv = (202301 :> [exists |-> e1, rows |-> r1]) @@
                (202302 :> [exists |-> e2, rows |-> r2])
    /\ file_list \in SeqsUpTo(Months, MaxFileList)
    /\ outputs \in PrevOutputs
    /\ before_out = outputs
    /\ cc_calls = 0
    /\ cc_status = "none"
RerunNext == CleanAndCombine
InitRerun == RerunInit /\ DlIdle /\ PpIdle /\ DashIdle /\ DrvIdle
SpecRerun == InitRerun /\ [][RerunNext]_vars

\* the driver script, launched from any directory on either kind of system,
\* over the months of its list
InitDrv ==
    /\ drv_pc = "line 5"
    /\ os_name \in {"nt", "posix"}
    /\ cwd \in {<<"repo">>, <<>>, <<"work">>, <<"repo", "outputs">>}
    /\ \E opt \in SUBSET {<<"repo", "outputs">>, <<"work", "outputs">>} :
          folders = BaseFolders \cup opt
    /\ cwd \in folders
    /\ ep_directory = Unset
    /\ drv_directory = Unset
    /\ made_dir = Unset
    /\ out_at = Unset
    /\ csv \in
          {(202301 :> [exists |-> TRUE, rows |-> <<RawRow("CA", "Alameda", PACE, Num(2))>>])
             @@ (202302 :> [exists |-> TRUE,
                            rows |-> <<RawRow("CA", "Butte", "HMO", Num(1))>>]),
           PrevDisk}
    /\ dl_list \in {<<202301, 202302>>, <<202301, 209901>>}
    /\ file_list = dl_list
    /\ outputs = NoOutputs
    /\ before_out = outputs
    /\ cc_calls = 0
    /\ cc_status = "none"
    /\ \E d \in StartDirs :
          dl_dir = (202301 :> d) @@ (202302 :> d) @@ (209901 :> Dir("none", FALSE, FALSE))
    /\ dl_pc = "idle"
    /\ dl_i = 0
    /\ dl_runs = 0
    /\ dl_start = dl_dir
    /\ dl_log = <<>>
    /\ PpIdle
    /\ DashIdle
DrvNext ==
    \/ DrvImport \/ DrvChdir \/ DrvMakedirs
    \/ DrvDownload \/ DrvDownloaded \/ DrvCleanAndCombine
SpecDrv == InitDrv /\ [][DrvNext]_vars


(***************************************************************************)
(* Claims about clean_and_combine (SpecAgg).                               *)
(***************************************************************************)
\* what a raw cell counts for: its number, or 0 when it holds none
CellValue(cell) == IF cell[1] = "num" THEN cell[2] ELSE 0

RECURSIVE SumOver(_, _)
\* the sum of CellValue over the rows of a raw file whose index is in I
SumOver(rows, I) ==
    IF I = {} THEN 0
    ELSE LET i == CHOOSE j \in I : TRUE
         IN  CellValue(rows[i].ENROLLED) + SumOver(rows, I \ {i})

Occurrences(files, f) == Cardinality({i \in 1..Len(files) : files[i] = f})
DateOf(f) == <<f \div 100, f % 100>>

PaceIdx(f, s, c) ==
    {i \in 1..Len(csv[f].rows) :
        /\ csv[f].rows[i].STATE = s /\ csv[f].rows[i].COUNTY = c
        /\ csv[f].rows[i].PLAN_TYPE = PACE}
PlaceIdx(f, s, c) ==
    {i \in 1..Len(csv[f].rows) : csv[f].rows[i].STATE = s /\ csv[f].rows[i].COUNTY = c}

PaceOut(s, c, d) ==
    {r.ENROLLED : r \in {x \in Range(outputs.enrl.rows) :
                            x.STATE = s /\ x.COUNTY = c /\ x.DATE = d}}
TotalOut(s, c, d) ==
    {r.ENROLLED : r \in {x \in Range(outputs.total_ma.rows) :
                            x.STATE = s /\ x.COUNTY = c /\ x.DATE = d}}
NationalOut(d) ==
    {r.NATIONAL_MA_ENROLLED : r \in {x \in Range(outputs.national.rows) : x.DATE = d}}

\* the three outputs hold, for every month of file_list, k times the sums of
\* that month's rows, and nothing for a state that is not configured
SumsTimes(k(_)) ==
    \A f \in Range(file_list) :
        /\ \A s \in {"CA", "NV"}, c \in {"Alameda", "Butte"} :
              /\ PaceOut(s, c, DateOf(f)) =
                    IF s \notin states \/ PaceIdx(f, s, c) = {} THEN {}
                    ELSE {Num(k(f) * SumOver(csv[f].rows, PaceIdx(f, s, c)))}
              /\ TotalOut(s, c, DateOf(f)) =
                    IF s \notin states \/ PlaceIdx(f, s, c) = {} THEN {}
                    ELSE {Num(k(f) * SumOver(csv[f].rows, PlaceIdx(f, s, c)))}
        /\ NationalOut(DateOf(f)) =
              {Num(k(f) * SumOver(csv[f].rows, 1..Len(csv[f].rows)))}

One(f) == 1
TimesListed(f) == Occurrences(file_list, f)

\* C1, as claimed: after clean_and_combine returns, for every month of
\* file_list the PACE value of each (state, county, month) is the sum of
\* ENROLLED over that month's PACE rows of that configured state and county,
\* the state total is the sum over that month's rows of that state and county
\* across plan types, and the national value is the sum over all rows of the
\* month's file.
C1_SumOfRows == cc_status = "ok" => SumsTimes(One)

\* C1, amended: the same sums, each counted once per occurrence of the month
\* in file_list (so exactly the sums of the rows when every month is listed once).
C1_SumPerListing == cc_status = "ok" => SumsTimes(TimesListed)

C1_Witness ==
    /\ cc_status = "ok"
    /\ \E f \in Range(file_list) :
          /\ Occurrences(file_list, f) = 2
          /\ Cardinality(PaceIdx(f, "CA", "Alameda")) = 2
          /\ SumOver(csv[f].rows, PaceIdx(f, "CA", "Alameda")) = 3
          /\ PaceOut("CA", "Alameda", DateOf(f)) = {Num(6)}

NumericCellsNonNegative ==
    \A f \in Range(file_list) : \A i \in 1..Len(csv[f].rows) :
        csv[f].rows[i].ENROLLED[1] = "num" => csv[f].rows[i].ENROLLED[2] >= 0

OutputCells ==
    {r.ENROLLED : r \in Range(outputs.enrl.rows) \cup Range(outputs.total_ma.rows)}
    \cup {r.NATIONAL_MA_ENROLLED : r \in Range(outputs.national.rows)}

\* C2, as claimed: every raw ENROLLED cell of the files clean_and_combine read
\* is used as a non-negative number, placeholders, other text and missing
\* cells as 0, and every count in the three outputs is non-negative.
C2_NonNegative ==
    cc_status = "ok" =>
        /\ \A f \in Range(file_list) : \A i \in 1..Len(csv[f].rows) :
              LET cell == csv[f].rows[i].ENROLLED
              IN  /\ IsNum(coerce_enrolled(cell))
                  /\ coerce_enrolled(cell)[2] >= 0
                  /\ cell[1] # "num" => coerce_enrolled(cell) = Num(0)
        /\ \A c \in OutputCells : IsNum(c) /\ c[2] >= 0

\* C2, amended: every raw cell is used as a number: a numeric cell as itself
\* (a negative number stays negative), a placeholder, other text or a missing
\* cell as 0; and when no numeric cell of the files read is negative, every
\* count in the three outputs is non-negative.
C2_Coercion ==
    cc_status = "ok" =>
        /\ \A f \in Range(file_list) : \A i \in 1..Len(csv[f].rows) :
              LET cell == csv[f].rows[i].ENROLLED
              IN  /\ IsNum(coerce_enrolled(cell))
                  /\ cell[1] = "num" => coerce_enrolled(cell) = cell
                  /\ cell[1] # "num" => coerce_enrolled(cell) = Num(0)
        /\ \A c \in OutputCells : IsNum(c)
        /\ NumericCellsNonNegative => \A c \in OutputCells : c[2] >= 0

C2_Witness ==
    /\ cc_status = "ok"
    /\ \E f \in Range(file_list) :
          /\ \E i \in 1..Len(csv[f].rows) : csv[f].rows[i].ENROLLED[1] \in {"dot", "text", "na"}
          /\ \E i \in 1..Len(csv[f].rows) : csv[f].rows[i].ENROLLED = Num(2)
          /\ PaceOut("CA", "Alameda", DateOf(f)) = {Num(2)}

NoTwoRows(rows, Key(_)) ==
    \A i, j \in 1..Len(rows) : i # j => Key(rows[i]) # Key(rows[j])
EnrlKey(r)     == <<r.STATE, r.COUNTY, r.PLAN_TYPE, r.DATE>>
TotalKey(r)    == <<r.STATE, r.COUNTY, r.DATE>>
NationalKey(r) == <<r.DATE>>

\* C3: after clean_and_combine returns, no two rows of the combined PACE
\* output share (STATE, COUNTY, PLAN TYPE, DATE), no two rows of the state
\* total output share (STATE, COUNTY, DATE) and no two rows of the national
\* output share DATE.
C3_UniqueKeys ==
    cc_status = "ok" =>
        /\ NoTwoRows(outputs.enrl.rows, EnrlKey)
        /\ NoTwoRows(outputs.total_ma.rows, TotalKey)
        /\ NoTwoRows(outputs.national.rows, NationalKey)

C3_Witness ==
    /\ cc_status = "ok"
    /\ Len(file_list) = 2 /\ file_list[1] = file_list[2]
    /\ Len(csv[file_list[1]].rows) = 2
    /\ csv[file_list[1]].rows[1] = csv[file_list[1]].rows[2]
    /\ Len(outputs.enrl.rows) = 1
    /\ Len(outputs.national.rows) = 1

\* C4: a call of clean_and_combine that follows another over the same
\* file_list, states and raw files leaves the three outputs exactly as the
\* earlier call left them.
C4_SecondRunSame == (cc_calls >= 2 /\ cc_status = "ok") => outputs = before_out

C4_Witness ==
    /\ cc_calls = 2 /\ cc_status = "ok"
    /\ outputs.enrl.rows # <<>> /\ outputs.total_ma.rows # <<>>
    /\ outputs = before_out


(***************************************************************************)
(* Claim about the zip-to-county join (SpecPp).                            *)
(***************************************************************************)
CrosswalkHits(z) ==
    {j \in 1..Len(zip_map_file.rows) : astype_str(zip_map_file.rows[j].zipcode) = z}
FirstHit(z) == CHOOSE j \in CrosswalkHits(z) : \A k \in CrosswalkHits(z) : j <= k

\* C5: after the join of process_provider_data, the joined table holds exactly
\* one row per target-state provider row, and every provider row whose
\* zero-padded zip occurs in the crosswalk carries the county of the first
\* crosswalk row with that zip.
C5_OneCountyPerProvider ==
    pp_status = "done" =>
        /\ Len(df_merged) = Len(df_ca)
        /\ \A i \in 1..Len(df_ca) :
              CrosswalkHits(df_ca[i].zipcode) # {} =>
                  df_merged[i].county =
                      zip_map_file.rows[FirstHit(df_ca[i].zipcode)].county

(***************************************************************************)
(* Claims about download_and_unzip (SpecDl).                               *)
(***************************************************************************)
ValidZips == {"zip_flat", "zip_nested"}
LogOf(f) == {e \in Range(dl_log) : e.file = f}

\* C6: during a call of download_and_unzip, no HTTP request is sent for a
\* month whose archive was already in its directory when the call started.
C6_NoRefetch ==
    \A e \in Range(dl_log) : dl_start[e.file].archive # "none" => ~e.fetched

\* C7: a call of download_and_unzip never ends by raising, whatever fails for
\* a month (an identifier missing from the file-name table included); when it
\* has returned, every position of file_list has been handled.
C7_ErrorsCaught ==
    /\ dl_pc # "raised"
    /\ dl_pc = "returned" => Len(dl_log) = Len(dl_list)

\* C8: when download_and_unzip has returned, every month of file_list whose
\* valid archive is in its directory has its extracted content there; a month
\* that started the call with a valid archive and no extracted file was
\* extracted during the call, whatever its HTTP request did; and a month that
\* started with an extracted file was not extracted again.
C8_ExtractedOnReturn ==
    dl_pc = "returned" =>
        \A i \in 1..Len(dl_list) :
            LET f == dl_list[i]
            IN  /\ dl_dir[f].archive \in ValidZips => (dl_dir[f].files \/ dl_dir[f].folder)
                /\ (dl_start[f].archive \in ValidZips /\ ~dl_start[f].files)
                      => \E e \in LogOf(f) : e.extracted
                /\ dl_start[f].files => \A e \in LogOf(f) : ~e.extracted

(***************************************************************************)
(* Claim about the Geographic Distribution page (SpecGeo).                 *)
(***************************************************************************)
MapRowsOf(c) == {r \in Range(map_data.rows) : r.COUNTY = c}
InSnapshot(c) ==
    \E r \in Range(df) : r.COUNTY = c /\ r.DATE = widgets.selected_date

\* C9: when the choropleth is drawn, every county of the GeoJSON has a map
\* row, every map row has a numeric ENROLLED, and a county with no row in the
\* enrollment table for the selected month has ENROLLED 0.
C9_ZeroFill ==
    (page = "Geographic Distribution" /\ map_data.shown) =>
        \A k \in 1..Len(geo_counties) :
            /\ MapRowsOf(geo_counties[k]) # {}
            /\ \A r \in MapRowsOf(geo_counties[k]) :
                  /\ IsNum(r.ENROLLED)
                  /\ ~InSnapshot(geo_counties[k]) => r.ENROLLED = Num(0)

C9_Witness ==
    /\ page = "Geographic Distribution" /\ map_data.shown
    /\ ~InSnapshot("Colusa")
    /\ \E r \in MapRowsOf("Colusa") : r.ENROLLED = Num(0)
    /\ \E r \in MapRowsOf("Alameda") : r.ENROLLED = Num(3)
    /\ ~InSnapshot("Butte") /\ \E r \in Range(df) : r.COUNTY = "Butte"

(***************************************************************************)
(* Claim about the gap analysis of the Provider Insights page (SpecGap).   *)
(***************************************************************************)
\* the distinct providers of a county under the page's two filters
DistinctProviders(c) ==
    Cardinality({r.Rndrng_NPI : r \in
        {x \in Range(prov_df.rows) :
            /\ x.county = c
            /\ x.county \in widgets.selected_counties
            /\ widgets.selected_gap_spec \in {AllSpecialties, x.Rndrng_Prvdr_Type}}})

\* C10: every row of the provider-density chart is a county with a positive
\* MA_ENROLLED taken from the MA enrollment table, and its density is the
\* finite number 100 * distinct providers / MA_ENROLLED.
C10_PositiveMa ==
    (page = "Provider Insights" /\ gap_df.shown) =>
        \A r \in Range(gap_df.rows) :
            /\ IsNum(r.MA_ENROLLED) /\ r.MA_ENROLLED[2] > 0
            /\ \E m \in Range(ma_enrl_df.rows) :
                  m.COUNTY = r.county /\ m.MA_ENROLLED = r.MA_ENROLLED
            /\ r.Providers_Per_100_MA_Enrolled =
                  Ratio(100 * DistinctProviders(r.county), r.MA_ENROLLED[2])

C10_Witness ==
    /\ page = "Provider Insights" /\ gap_df.shown
    /\ widgets.selected_counties = {"Alameda", "Butte"}
    /\ widgets.selected_gap_spec = "Cardiology"
    /\ Len(gap_df.rows) = 1
    /\ gap_df.rows[1].county = "Alameda"
    /\ gap_df.rows[1].Providers_Per_100_MA_Enrolled = Ratio(100, 3)
    /\ \A m \in Range(ma_enrl_df.rows) : m.COUNTY # "Butte"

(***************************************************************************)
(* Claims about process_provider_data (SpecTop, SpecPp).                   *)
(***************************************************************************)
RECURSIVE SumIdx(_, _)
\* the sum of val[i] over the indices i of I
SumIdx(val, I) ==
    IF I = {} THEN 0
    ELSE LET i == CHOOSE j \in I : TRUE IN val[i] + SumIdx(val, I \ {i})

Smaller(a, b) == IF a < b THEN a ELSE b

\* the rows of the latest month of the combined enrollment table, its
\* counties and their PACE enrollment in that month
LatestIdx ==
    {i \in 1..Len(outputs.enrl.rows) :
        \A j \in 1..Len(outputs.enrl.rows) :
            DateNum(outputs.enrl.rows[j].DATE) <= DateNum(outputs.enrl.rows[i].DATE)}
LatestCounties == {outputs.enrl.rows[i].COUNTY : i \in LatestIdx}
LatestOf(c) ==
    SumOver(outputs.enrl.rows, {i \in LatestIdx : outputs.enrl.rows[i].COUNTY = c})
DetailCounties == {r.county : r \in Range(prov_df.rows)}

\* C11: after process_provider_data, the counties it ranked first are 10 of
\* the counties of the latest month (all of them when there are fewer), no
\* county left out has a greater latest-month PACE enrollment than one kept,
\* the detailed table holds exactly the joined target-state provider rows
\* whose county is one of them, and so at most 10 counties occur in it.
C11_TopTenCounties ==
    pp_status = "done" =>
        /\ top_counties \subseteq LatestCounties
        /\ Cardinality(top_counties) = Smaller(10, Cardinality(LatestCounties))
        /\ \A c \in top_counties, o \in LatestCounties \ top_counties :
              LatestOf(o) <= LatestOf(c)
        /\ prov_df.exists
        /\ prov_df.rows =
              Filter(df_merged, [i \in 1..Len(df_merged) |-> df_merged[i].county \in top_counties])
        /\ Cardinality(DetailCounties) <= 10

C11_Witness ==
    /\ pp_status = "done"
    /\ Cardinality(LatestCounties) = 11
    /\ \E r \in Range(df_merged) : r.county \in LatestCounties \ top_counties
    /\ \E r \in Range(prov_df.rows) : r.county \in top_counties
    /\ \E i \in 1..Len(outputs.enrl.rows) : i \notin LatestIdx

CaProviders(ty) ==
    {i \in 1..Len(prov_file.rows) :
        /\ prov_file.rows[i].Rndrng_Prvdr_State_Abrvtn = "CA"
        /\ prov_file.rows[i].Rndrng_Prvdr_Type = ty}
BenchmarkRows(ty) == {b \in Range(kpi_file.rows) : b.Rndrng_Prvdr_Type = ty}
PaymentSum(I) == SumIdx([i \in 1..Len(prov_file.rows) |-> prov_file.rows[i].Tot_Mdcr_Pymt_Amt], I)
BeneSum(I)    == SumIdx([i \in 1..Len(prov_file.rows) |-> prov_file.rows[i].Tot_Benes], I)

\* C12: after process_provider_data, every specialty of a target-state
\* provider record has one benchmark row, whose payment and beneficiary sums
\* are the sums over the target-state provider records of that specialty,
\* each record counted once whatever its county, and whose State_Avg_Cost is
\* the payment sum divided by the beneficiary sum.
C12_BenchmarkSums ==
    pp_status = "done" =>
        \A ty \in {"Cardiology", "Nursing"} :
            BenchmarkRows(ty) =
                IF CaProviders(ty) = {} THEN {}
                ELSE {[Rndrng_Prvdr_Type |-> ty,
                       Tot_Mdcr_Pymt_Amt |-> PaymentSum(CaProviders(ty)),
                       Tot_Benes |-> BeneSum(CaProviders(ty)),
                       State_Avg_Cost |-> np_divide(PaymentSum(CaProviders(ty)),
                                                    Num(BeneSum(CaProviders(ty))))]}

\* C15: process_provider_data never ends with an uncaught exception because an
\* input file is missing: it reports the error and returns.
C15_MissingInputsCaught == pp_status # "raised"

\* C20: after process_provider_data, every specialty of a row of the detailed
\* provider table has a row in the state benchmark table.
C20_SpecialtiesBenchmarked ==
    pp_status = "done" =>
        \A r \in Range(prov_df.rows) :
            \E b \in Range(kpi_file.rows) : b.Rndrng_Prvdr_Type = r.Rndrng_Prvdr_Type

C20_Witness ==
    /\ pp_status = "done"
    /\ Cardinality({r.Rndrng_Prvdr_Type : r \in Range(prov_df.rows)}) = 2
    /\ Len(kpi_file.rows) = 2
    /\ \E r \in Range(df_merged) : r.county \notin top_counties

\* the rows of the latest month of the state-total enrollment table, its
\* counties and their all-plan enrollment in that month
TotalLatestIdx ==
    {i \in 1..Len(outputs.total_ma.rows) :
        \A j \in 1..Len(outputs.total_ma.rows) :
            DateNum(outputs.total_ma.rows[j].DATE) <= DateNum(outputs.total_ma.rows[i].DATE)}
TotalLatestCounties == {outputs.total_ma.rows[i].COUNTY : i \in TotalLatestIdx}
TotalLatestOf(c) ==
    SumOver(outputs.total_ma.rows,
            {i \in TotalLatestIdx : outputs.total_ma.rows[i].COUNTY = c})
MaWritten == pp_status \in {"returned at line 59", "done"}

\* C21: once process_provider_data has written the MA enrollment table, the
\* table comes from the state-total enrollment file: it has one row for every
\* county of that file's latest month and no other, and each row's MA_ENROLLED
\* is the county's all-plan enrollment of that month; when the state-total
\* file could not be loaded the table has no row (never the PACE-only
\* enrollment).
C21_MaEnrolledAllPlan ==
    MaWritten =>
        /\ ma_enrl_df.exists
        /\ {r.COUNTY : r \in Range(ma_enrl_df.rows)} = TotalLatestCounties
        /\ Len(ma_enrl_df.rows) = Cardinality(TotalLatestCounties)
        /\ \A r \in Range(ma_enrl_df.rows) :
              r.MA_ENROLLED = Num(TotalLatestOf(r.COUNTY))

(***************************************************************************)
(* Claims about the dashboard as a whole (SpecDash).                       *)
(***************************************************************************)
\* the rows of the loaded table inside the selected date range, as indices
InRange ==
    {i \in 1..Len(df) :
        /\ DayNum(<<df[i].DATE, 1>>) >= DayNum(widgets.date_range[1])
        /\ DayNum(<<df[i].DATE, 1>>) <= DayNum(widgets.date_range[2])}
TrendCounties == {df[i].COUNTY : i \in InRange}
TrendDates    == {df[i].DATE : i \in InRange}
TrendTotal(c) == SumOver(df, {i \in InRange : df[i].COUNTY = c})
OnDate(d, C)  == SumOver(df, {i \in InRange : df[i].DATE = d /\ df[i].COUNTY \in C})
GroupRows(d, g) ==
    {k \in 1..Len(chart_data.rows) :
        chart_data.rows[k].DATE = d /\ chart_data.rows[k].County_Grouped = g}
DateRows(d) == {k \in 1..Len(chart_data.rows) : chart_data.rows[k].DATE = d}

C14_EmptyTolerated ==
    (dash_status # "none" /\ ~outputs.enrl.exists) =>
        /\ dash_status = "ok"
        /\ df = <<>>
        /\ "No enrollment data available" \in banners
        /\ page = "Enrollment Trends" => (title = "" /\ ~chart_data.shown)
        /\ page = "Geographic Distribution" => (title = "" /\ ~map_data.shown)
        /\ page = "Methodology" => title = "Methodology"
        /\ page = "Provider Insights" => title = "Provider Network Insights"
        /\ page = "Strategy Write-up" => title = "Strategy Write-up"

C14_Witness ==
    /\ ~outputs.enrl.exists
    /\ page = "Provider Insights" /\ dash_status = "ok"
    /\ gap_df.shown /\ gap_df.rows # <<>>
    /\ {"Error loading data", "No enrollment data available"} \subseteq banners

\* the files under outputs/
OutputFiles == <<outputs, zip_map_file, prov_df, ma_enrl_df, kpi_file>>

\* C16: no render of the dashboard, whatever the page and the values of its
\* controls, creates, removes or changes a file under outputs/.
C16_FilesUntouched == [][OutputFiles' = OutputFiles]_vars

C16_Witness ==
    /\ page = "Provider Insights" /\ gap_df.shown
    /\ chart_data.shown /\ map_data.shown
    /\ widgets.selected_counties = {"Alameda"}
    /\ outputs.enrl.rows # <<>> /\ prov_df.exists

(***************************************************************************)
(* Further claims about clean_and_combine (SpecAgg, SpecRerun).            *)
(***************************************************************************)
TotalRowsOn(d) ==
    {i \in 1..Len(outputs.total_ma.rows) : outputs.total_ma.rows[i].DATE = d}

\* C17: after clean_and_combine returns over files without a negative count,
\* every row of the PACE output has a row of the state-total output for the
\* same state, county and month whose count is at least as large, and for
\* every month the state-total counts add up to at most the national count.
C17_Nested ==
    (cc_status = "ok" /\ NumericCellsNonNegative) =>
        /\ \A r \in Range(outputs.enrl.rows) :
              \E t \in Range(outputs.total_ma.rows) :
                  /\ t.STATE = r.STATE /\ t.COUNTY = r.COUNTY /\ t.DATE = r.DATE
                  /\ r.ENROLLED[2] <= t.ENROLLED[2]
        /\ \A t \in Range(outputs.total_ma.rows) :
              \E n \in Range(outputs.national.rows) :
                  /\ n.DATE = t.DATE
                  /\ SumOver(outputs.total_ma.rows, TotalRowsOn(t.DATE))
                        <= n.NATIONAL_MA_ENROLLED[2]

C17_Witness ==
    /\ cc_status = "ok" /\ NumericCellsNonNegative
    /\ \E r \in Range(outputs.enrl.rows), t \in Range(outputs.total_ma.rows) :
          /\ t.STATE = r.STATE /\ t.COUNTY = r.COUNTY /\ t.DATE = r.DATE
          /\ 0 < r.ENROLLED[2] /\ r.ENROLLED[2] < t.ENROLLED[2]

\* C18: a call of clean_and_combine that raises leaves the three outputs as
\* they were when it started, whether absent or left by an earlier run.
C18_NoPartialOutputs == cc_status = "failed" => outputs = before_out

C18_Witness ==
    /\ cc_status = "failed"
    /\ Len(file_list) = 2
    /\ csv[file_list[1]].rows # <<>>
    /\ ~csv[file_list[2]].exists
    /\ outputs.enrl.rows # <<>>
    /\ outputs = before_out

(***************************************************************************)
(* Further claim about download_and_unzip (SpecDl).                        *)
(***************************************************************************)
\* C19: during a call of download_and_unzip an archive is written only into a
\* directory that holds none and only from the body of a successful response:
\* an archive that was there when the call started is still the same, an
\* iteration whose request failed wrote nothing, and an archive that appeared
\* is the body an iteration wrote.
C19_ArchiveWrites ==
    /\ \A e \in Range(dl_log) :
          /\ e.wrote => (e.had = "none" /\ e.resp \in BodyKinds)
          /\ e.resp \in {"conn_error", "http_error"} => ~e.wrote
    /\ \A f \in KnownFiles :
          /\ dl_start[f].archive # "none" => dl_dir[f].archive = dl_start[f].archive
          /\ dl_dir[f].archive # dl_start[f].archive =>
                \E e \in LogOf(f) : e.wrote /\ e.resp = dl_dir[f].archive

C19_Witness ==
    /\ dl_pc = "returned"
    /\ \E e \in Range(dl_log) : e.wrote
    /\ \E e \in Range(dl_log) :
          e.had # "none" /\ e.resp \in BodyKinds /\ e.resp # e.had /\ ~e.wrote

(***************************************************************************)
(* Claim about the enrollment pipeline driver (SpecDrv).                   *)
(***************************************************************************)
\* C22: in a run of the driver, from whatever working directory it was
\* launched, the base directory enrollment_processing captured at its import
\* is the base directory the driver uses after changing to the script's
\* directory, and the directory clean_and_combine wrote its three outputs
\* into is the outputs directory the driver created.
C22_SameBaseDirectory ==
    /\ (ep_directory # Unset /\ drv_directory # Unset) => ep_directory = drv_directory
    /\ out_at # Unset => out_at = made_dir
    /\ (drv_pc = "done" /\ os_name = "nt") => out_at = Append(ScriptDir, "outputs")

====
